---- MODULE Spec2Model ----
(***************************************************************************)
(* Rehabify frontend: the input page (Home), the analysis call             *)
(* (analyzeProperty), the session-storage snapshot and the report page      *)
(* (Report), as one state machine.                                          *)
(*                                                                          *)
(* JavaScript values are records [t, s, n, m]: t the type tag, s the        *)
(* string payload, n the integer payload, m the members of an object or     *)
(* array (a sequence of [k, v], in insertion order).  A number is an        *)
(* integer n, a count n of tenths that is not an integer, the negative      *)
(* zero or an infinity.  JSON text is a                                     *)
(* sequence of lexical tokens [c, s, n].  Strings of the text input are     *)
(* sequences of characters.                                                 *)
(***************************************************************************)
EXTENDS Integers, Sequences, FiniteSets, TLC

----------------------------------------------------------------------------
(* JavaScript values *)

Undefined == [t |-> "undefined", s |-> "", n |-> 0, m |-> <<>>]
Null == [t |-> "null", s |-> "", n |-> 0, m |-> <<>>]
Bool(b) == [t |-> "boolean", s |-> IF b THEN "true" ELSE "false", n |-> 0, m |-> <<>>]
Num(i) == [t |-> "number", s |-> "finite", n |-> i, m |-> <<>>]
Dec(k) == [t |-> "number", s |-> "tenths", n |-> k, m |-> <<>>]
NegZero == [t |-> "number", s |-> "-0", n |-> 0, m |-> <<>>]
Infinity(sign) == [t |-> "number", s |-> "Infinity", n |-> sign, m |-> <<>>]
Str(x) == [t |-> "string", s |-> x, n |-> 0, m |-> <<>>]
Obj(members) == [t |-> "object", s |-> "", n |-> 0, m |-> members]
Arr(elements) == [t |-> "array", s |-> "", n |-> 0, m |-> elements]
Member(key, val) == [k |-> key, v |-> val]
EmptyObject == Obj(<<>>)

(* ToBoolean: undefined, null, false, +0, -0 and "" are falsy *)
Truthy(v) ==
  CASE v.t = "undefined" -> FALSE
    [] v.t = "null" -> FALSE
    [] v.t = "boolean" -> v.s = "true"
    [] v.t = "number" -> ~(v.s = "-0" \/ (v.s = "finite" /\ v.n = 0))
    [] v.t = "string" -> v.s # ""
    [] OTHER -> TRUE

(* the number k / 10, and a number as a count of tenths *)
NumberOfTenths(k) == IF k % 10 = 0 THEN Num(k \div 10) ELSE Dec(k)
InTenths(v) == IF v.s = "tenths" THEN v.n ELSE 10 * v.n

(* ToNumber(v) >= c / 10 and ToNumber(v) > c / 10 for a value that is a
   number, a boolean, null or undefined (NaN compares false) *)
AtLeast(v, c) ==
  CASE v.t = "number" /\ v.s = "Infinity" -> v.n > 0
    [] v.t = "number" /\ v.s # "Infinity" -> InTenths(v) >= c
    [] v.t = "boolean" -> (IF v.s = "true" THEN 10 ELSE 0) >= c
    [] v.t = "null" -> 0 >= c
    [] OTHER -> FALSE
MoreThan(v, c) == AtLeast(v, c + 1)

(* a || b *)
Or(a, b) == IF Truthy(a) THEN a ELSE b

(* v.key: a TypeError on undefined and null, undefined when the key is missing *)
HasKey(v, key) == v.t = "object" /\ \E i \in 1..Len(v.m) : v.m[i].k = key
Throws(v) == v.t \in {"undefined", "null"}
Get(v, key) ==
  IF HasKey(v, key)
  THEN v.m[CHOOSE i \in 1..Len(v.m) : v.m[i].k = key].v
  ELSE Undefined

----------------------------------------------------------------------------
(* JSON text as tokens *)

Punct(x) == [c |-> "punct", s |-> x, n |-> 0]
Lit(x) == [c |-> "lit", s |-> x, n |-> 0]
StrTok(x) == [c |-> "str", s |-> x, n |-> 0]
IntTok(i) == [c |-> "num", s |-> "int", n |-> i]
DecTok(k) == [c |-> "num", s |-> "tenths", n |-> k]
NegZeroTok == [c |-> "num", s |-> "-0", n |-> 0]
HugeTok(sign) == [c |-> "num", s |-> "huge", n |-> sign]
BadTok(x) == [c |-> "bad", s |-> x, n |-> 0]
LB == Punct("{")
RB == Punct("}")
LK == Punct("[")
RK == Punct("]")
CO == Punct(":")
CM == Punct(",")

(* JSON.stringify of a value that JSON.parse produced *)
RECURSIVE JSONStringify(_)
RECURSIVE StringifyMembers(_, _, _)
StringifyMembers(ms, i, isObject) ==
  IF i > Len(ms) THEN <<>>
  ELSE (IF i > 1 THEN <<CM>> ELSE <<>>)
       \o (IF isObject THEN <<StrTok(ms[i].k), CO>> ELSE <<>>)
       \o JSONStringify(ms[i].v)
       \o StringifyMembers(ms, i + 1, isObject)

JSONStringify(v) ==
  CASE v.t = "null" -> <<Lit("null")>>
    [] v.t = "boolean" -> <<Lit(v.s)>>
    [] v.t = "number" ->
         (CASE v.s = "finite" -> <<IntTok(v.n)>>
            [] v.s = "tenths" -> <<DecTok(v.n)>>
            [] v.s = "-0" -> <<IntTok(0)>>
            [] OTHER -> <<Lit("null")>>)
    [] v.t = "string" -> <<StrTok(v.s)>>
    [] v.t = "object" -> <<LB>> \o StringifyMembers(v.m, 1, TRUE) \o <<RB>>
    [] v.t = "array" -> <<LK>> \o StringifyMembers(v.m, 1, FALSE) \o <<RK>>

(* JSON.parse: recursive descent; a later duplicate key replaces the value.
   Keys are taken not to be array indices, so that the members are
   enumerated in the order of the text. *)
ParseFail == [ok |-> FALSE, v |-> Undefined, i |-> 0]
ParseOk(val, next) == [ok |-> TRUE, v |-> val, i |-> next]

PutMember(ms, key, val) ==
  IF \E i \in 1..Len(ms) : ms[i].k = key
  THEN [i \in 1..Len(ms) |-> IF ms[i].k = key THEN Member(key, val) ELSE ms[i]]
  ELSE Append(ms, Member(key, val))

RECURSIVE ParseValue(_, _)
RECURSIVE ParseMembers(_, _, _)
RECURSIVE ParseElements(_, _, _)

ParseMembers(toks, i, acc) ==
  IF i + 2 > Len(toks) \/ toks[i].c # "str" \/ toks[i + 1] # CO THEN ParseFail
  ELSE LET r == ParseValue(toks, i + 2) IN
       IF ~r.ok \/ r.i > Len(toks) THEN ParseFail
       ELSE LET ms == PutMember(acc, toks[i].s, r.v) IN
            CASE toks[r.i] = CM -> ParseMembers(toks, r.i + 1, ms)
              [] toks[r.i] = RB -> ParseOk(Obj(ms), r.i + 1)
              [] OTHER -> ParseFail

ParseElements(toks, i, acc) ==
  LET r == ParseValue(toks, i) IN
  IF ~r.ok \/ r.i > Len(toks) THEN ParseFail
  ELSE LET es == Append(acc, Member("", r.v)) IN
       CASE toks[r.i] = CM -> ParseElements(toks, r.i + 1, es)
         [] toks[r.i] = RK -> ParseOk(Arr(es), r.i + 1)
         [] OTHER -> ParseFail

ParseValue(toks, i) ==
  IF i > Len(toks) THEN ParseFail
  ELSE LET tk == toks[i] IN
       CASE tk.c = "lit" ->
              ParseOk((CASE tk.s = "null" -> Null
                         [] tk.s = "true" -> Bool(TRUE)
                         [] OTHER -> Bool(FALSE)), i + 1)
         [] tk.c = "num" ->
              ParseOk((CASE tk.s = "int" -> Num(tk.n)
                         [] tk.s = "tenths" -> Dec(tk.n)
                         [] tk.s = "-0" -> NegZero
                         [] OTHER -> Infinity(tk.n)), i + 1)
         [] tk.c = "str" -> ParseOk(Str(tk.s), i + 1)
         [] tk = LB ->
              IF i + 1 <= Len(toks) /\ toks[i + 1] = RB
              THEN ParseOk(EmptyObject, i + 2)
              ELSE ParseMembers(toks, i + 1, <<>>)
         [] tk = LK ->
              IF i + 1 <= Len(toks) /\ toks[i + 1] = RK
              THEN ParseOk(Arr(<<>>), i + 2)
              ELSE ParseElements(toks, i + 1, <<>>)
         [] OTHER -> ParseFail

JSONParse(toks) ==
  LET r == ParseValue(toks, 1) IN
  IF r.ok /\ r.i = Len(toks) + 1 THEN [ok |-> TRUE, v |-> r.v]
  ELSE [ok |-> FALSE, v |-> Undefined]

----------------------------------------------------------------------------
(* Bounds of the model: submits that pass the emptiness check, the length
   of a label given to a formatter, the largest condition value in tenths,
   the entries of a cost summary *)

MaxSubmits == 2
MaxLen == 4
MaxTenths == 40
MaxEntries == 3

----------------------------------------------------------------------------
(* Strings of the text input *)

Whitespace == {" ", "\t", "\n"}
Texts == {<<>>, <<" ", "\t">>, <<"a">>, <<" ", "a", " ">>}
DemoLink == <<"https://www.idealista.pt/imovel/EXAMPLE">>

(* String.prototype.trim *)
RECURSIVE TrimStart(_)
TrimStart(str) ==
  IF str # <<>> /\ Head(str) \in Whitespace THEN TrimStart(Tail(str)) ELSE str
RECURSIVE TrimEnd(_)
TrimEnd(str) ==
  IF str # <<>> /\ str[Len(str)] \in Whitespace
  THEN TrimEnd(SubSeq(str, 1, Len(str) - 1)) ELSE str
Trim(str) == TrimEnd(TrimStart(str))

----------------------------------------------------------------------------
(* Formatters (utils/formatters.ts) *)

LowerCase == <<"a", "b", "c", "d", "e", "f", "g", "h", "i", "j", "k", "l", "m",
               "n", "o", "p", "q", "r", "s", "t", "u", "v", "w", "x", "y", "z">>
UpperCase == <<"A", "B", "C", "D", "E", "F", "G", "H", "I", "J", "K", "L", "M",
               "N", "O", "P", "Q", "R", "S", "T", "U", "V", "W", "X", "Y", "Z">>
(* String.prototype.toUpperCase of one character *)
toUpperCase(c) ==
  IF \E i \in 1..Len(LowerCase) : LowerCase[i] = c
  THEN UpperCase[CHOOSE i \in 1..Len(LowerCase) : LowerCase[i] = c]
  ELSE c

(* str.split(sep): the pieces between the separators, empty pieces kept *)
RECURSIVE split(_, _, _)
split(str, sep, piece) ==
  IF str = <<>> THEN <<piece>>
  ELSE IF Head(str) = sep THEN <<piece>> \o split(Tail(str), sep, <<>>)
  ELSE split(Tail(str), sep, Append(piece, Head(str)))

(* words.join(sep) *)
RECURSIVE join(_, _)
join(words, sep) ==
  IF words = <<>> THEN <<>>
  ELSE IF Len(words) = 1 THEN words[1]
  ELSE words[1] \o <<sep>> \o join(Tail(words), sep)

(* word.charAt(0).toUpperCase() + word.slice(1) *)
Capitalize(word) ==
  IF word = <<>> THEN <<>> ELSE <<toUpperCase(word[1])>> \o Tail(word)

formatRoomTypeLowerCase(roomType) == join(split(roomType, "_", <<>>), " ")
formatRoomType(roomType) ==
  LET words == split(roomType, "_", <<>>) IN
  join([i \in 1..Len(words) |-> Capitalize(words[i])], " ")

formatCategoryName(category) ==
  LET words == split(category, "_", <<>>) IN
  join([i \in 1..Len(words) |-> Capitalize(words[i])], " ")

getConditionColorUndefinedOnly(condition) ==
  IF condition.t \in {"undefined", "null"} THEN "text-gray-500"
  ELSE IF AtLeast(condition, 35) THEN "text-green-600"
  ELSE IF AtLeast(condition, 25) THEN "text-yellow-600"
  ELSE "text-red-600"
getConditionColor(condition) ==
  IF ~Truthy(condition) THEN "text-gray-500"
  ELSE IF AtLeast(condition, 35) THEN "text-green-600"
  ELSE IF AtLeast(condition, 25) THEN "text-yellow-600"
  ELSE "text-red-600"

getConditionLabelStrict(condition) ==
  IF ~Truthy(condition) THEN "N/A"
  ELSE IF MoreThan(condition, 35) THEN "Excellent"
  ELSE IF MoreThan(condition, 25) THEN "Good"
  ELSE IF MoreThan(condition, 15) THEN "Fair"
  ELSE "Poor"
getConditionLabel(condition) ==
  IF ~Truthy(condition) THEN "N/A"
  ELSE IF AtLeast(condition, 35) THEN "Excellent"
  ELSE IF AtLeast(condition, 25) THEN "Good"
  ELSE IF AtLeast(condition, 15) THEN "Fair"
  ELSE "Poor"

----------------------------------------------------------------------------
(* The analysis service: what a request can come back with *)

BodyFull ==
  <<LB, StrTok("success"), CO, Lit("true"), CM,
    StrTok("property_info"), CO, LB, StrTok("location"), CO, StrTok("Lisboa"), RB, CM,
    StrTok("investment"), CO, LB, StrTok("total_investment"), CO, IntTok(100), RB, CM,
    StrTok("rent_estimate"), CO, LB, StrTok("monthly_rent"), CO, IntTok(5), RB, RB>>
BodyFailed ==
  <<LB, StrTok("success"), CO, Lit("false"), CM,
    StrTok("property_info"), CO, LB, StrTok("location"), CO, StrTok("Lisboa"), RB, CM,
    StrTok("investment"), CO, LB, StrTok("total_investment"), CO, IntTok(100), RB, RB>>
BodyNoFlag ==
  <<LB, StrTok("link"), CO, StrTok("a"), CM,
    StrTok("rehab_costs"), CO, LB, StrTok("summary"), CO,
    LB, StrTok("paint"), CO, IntTok(1), RB, RB, RB>>
BodyNull == <<Lit("null")>>
BodyHuge ==
  <<LB, StrTok("success"), CO, Lit("true"), CM,
    StrTok("investment"), CO, LB, StrTok("total_investment"), CO, HugeTok(1), RB, RB>>
BodyNegZero ==
  <<LB, StrTok("success"), CO, Lit("true"), CM,
    StrTok("rent_estimate"), CO, LB, StrTok("monthly_rent"), CO, NegZeroTok, RB, RB>>
BodyNotJson == <<BadTok("<html>")>>
BodyError == <<BadTok("Internal Server Error")>>
BodyDetail == <<LB, StrTok("detail"), CO, StrTok("Not Found"), RB>>

Bodies == {BodyFull, BodyFailed, BodyNoFlag, BodyNull, BodyHuge, BodyNegZero,
           BodyNotJson}

(* Response.ok *)
ResOk(status) == status >= 200 /\ status <= 299
(* `${res.status}` *)
StatusText(status) ==
  CASE status = 200 -> "200"
    [] status = 201 -> "201"
    [] status = 404 -> "404"
    [] OTHER -> "500"

(* fetch rejects (net), or resolves with a status and a body; full: the
   storage quota is exceeded when the snapshot is written *)
Outcomes ==
  {[net |-> FALSE, status |-> 200, body |-> b, full |-> f] :
     b \in Bodies, f \in BOOLEAN}
  \cup {[net |-> FALSE, status |-> 500, body |-> BodyError, full |-> FALSE],
        [net |-> FALSE, status |-> 404, body |-> BodyDetail, full |-> FALSE],
        [net |-> FALSE, status |-> 201, body |-> BodyFull, full |-> FALSE],
        [net |-> TRUE, status |-> 200, body |-> <<>>, full |-> FALSE]}

(* Error values: a name and a message (string parts, then embedded text) *)
Error(name, parts, text) == [name |-> name, parts |-> parts, text |-> text]
NoMessage == [parts |-> <<>>, text |-> <<>>]

(* the request body: JSON.stringify({ link }) *)
RequestBodyTrimmed(str) == [link |-> Trim(str)]
RequestBody(str) == [link |-> str]

(* analyzeProperty: the awaited result of one call, given the outcome *)
analyzePropertyStatusOnly(o) ==
  IF o.net
  THEN [ok |-> FALSE, data |-> Undefined,
        error |-> Error("TypeError", <<"Failed to fetch">>, <<>>)]
  ELSE IF ~ResOk(o.status)
  THEN [ok |-> FALSE, data |-> Undefined,
        error |-> Error("Error", <<"Failed to analyze property: ",
                                   StatusText(o.status), " ">>, <<>>)]
  ELSE IF ~JSONParse(o.body).ok
  THEN [ok |-> FALSE, data |-> Undefined,
        error |-> Error("SyntaxError", <<"Unexpected token">>, <<>>)]
  ELSE [ok |-> TRUE, data |-> JSONParse(o.body).v,
        error |-> Error("", <<>>, <<>>)]
analyzeProperty(o) ==
  IF o.net
  THEN [ok |-> FALSE, data |-> Undefined,
        error |-> Error("TypeError", <<"Failed to fetch">>, <<>>)]
  ELSE IF ~ResOk(o.status)
  THEN [ok |-> FALSE, data |-> Undefined,
        error |-> Error("Error", <<"Failed to analyze property: ",
                                   StatusText(o.status), " ">>, o.body)]
  ELSE IF ~JSONParse(o.body).ok
  THEN [ok |-> FALSE, data |-> Undefined,
        error |-> Error("SyntaxError", <<"Unexpected token">>, <<>>)]
  ELSE [ok |-> TRUE, data |-> JSONParse(o.body).v,
        error |-> Error("", <<>>, <<>>)]

----------------------------------------------------------------------------
(* State *)

VARIABLES
  home,          \* which Home is deployed: "cards" or "plain"
  route,         \* "home" (path /) or "report" (path /report)
  link,          \* Home: the text input
  loading,       \* Home: the loading flag
  requests,      \* calls of analyzeProperty in flight, in the order of
                 \* issue: [link, live, late], link the link of the request
                 \* body, late: a call issued later has written the key
  storage,       \* sessionStorage key "analysisData": [present, text]
  data,          \* Report: the data state
  rLoading,      \* Report: the loading flag
  effectRan,     \* Report: the mount effect has run
  visited,       \* the browser history holds an entry for /report
  op,            \* the step just taken ("orphan": the continuation of a
                 \* call whose Home is discarded)
  alertMsg,      \* alert() shown by the step just taken
  logged,        \* console.error called by the step just taken
  pushed,        \* router.push("/report") called by the step just taken
  got,           \* what analyzeProperty returned in the step just taken,
                 \* and to which call
  nAccepted,     \* submits that passed the emptiness check
  nIssued,       \* calls of fetch
  nReads,        \* sessionStorage.getItem calls of the mounted Report
  lastStored,    \* value handed to the latest completed setItem
  call           \* a formatter call on its own: [fn, arg, out]

vars == <<home, route, link, loading, requests, storage, data, rLoading,
          effectRan, visited, op, alertMsg, logged, pushed, got, nAccepted,
          nIssued, nReads, lastStored, call>>

(* Home of page.tsx 11-135 ("cards") and the earlier Home ("plain") *)
HomeBuilds == {"cards", "plain"}
(* Report of page.tsx 248-564 ("cards"), 630-903 ("plain"), 149-179 ("legacy") *)
ReportBuilds == {"cards", "plain", "legacy"}

Absent == [present |-> FALSE, text |-> <<>>]
Stored(text) == [present |-> TRUE, text |-> text]
NoCall == [fn |-> "", arg |-> <<>>, out |-> <<>>]
None == [some |-> FALSE, data |-> Undefined]
Some(v) == [some |-> TRUE, data |-> v]
ReturnedTo(late, v) == [some |-> TRUE, data |-> v, late |-> late]

----------------------------------------------------------------------------
(* Home *)

(* !link.trim() *)
IsBlankNoTrim(str) == str = <<>>
IsBlank(str) == Trim(str) = <<>>

(* the controls' disabled attributes *)
InputEnabledAlways == TRUE
InputEnabled == ~loading
DemoEnabled == home = "cards" /\ ~loading
SubmitDisabledCards == link = <<>> \/ loading
SubmitDisabledPlain == loading
SubmitEnabledNoGuard == IF home = "cards" THEN link # <<>> ELSE TRUE
SubmitEnabled ==
  IF home = "cards" THEN ~SubmitDisabledCards ELSE ~SubmitDisabledPlain

(* the calls of a discarded Home stay in flight; their owner is gone *)
Orphaned(reqs) == [i \in 1..Len(reqs) |-> [reqs[i] EXCEPT !.live = FALSE]]

(* the router shows the report page: Report is mounted with its initial
   state; Home, if it was shown, is discarded *)
MountReport(reqs) ==
  /\ route' = "report"
  /\ data' = EmptyObject
  /\ rLoading' = TRUE
  /\ effectRan' = FALSE
  /\ nReads' = 0
  /\ visited' = TRUE
  /\ requests' = Orphaned(reqs)

(* the router shows the input page: Home is mounted with its initial state
   and Report is discarded *)
MountHome ==
  /\ route' = "home"
  /\ link' = <<>>
  /\ loading' = FALSE
  /\ data' = EmptyObject
  /\ rLoading' = TRUE
  /\ effectRan' = FALSE
  /\ nReads' = 0

Quiet ==
  alertMsg' = NoMessage /\ logged' = FALSE /\ pushed' = FALSE /\ got' = None

(* onChange of the input *)
Type(str) ==
  /\ route = "home" /\ InputEnabled
  /\ link' = str
  /\ op' = "type"
  /\ Quiet
  /\ UNCHANGED <<home, route, loading, requests, storage, data, rLoading,
                 effectRan, visited, nAccepted, nIssued, nReads, lastStored,
                 call>>

(* onClick of "Try demo link" *)
Demo ==
  /\ route = "home" /\ DemoEnabled
  /\ link' = DemoLink
  /\ op' = "demo"
  /\ Quiet
  /\ UNCHANGED <<home, route, loading, requests, storage, data, rLoading,
                 effectRan, visited, nAccepted, nIssued, nReads, lastStored,
                 call>>

(* handleSubmit up to its await *)
handleSubmit ==
  /\ op' = "submit"
  /\ logged' = FALSE /\ pushed' = FALSE /\ got' = None
  /\ IF IsBlank(link)
     THEN /\ alertMsg' = [parts |-> <<"Please enter a property link">>, text |-> <<>>]
          /\ UNCHANGED <<loading, requests, nAccepted, nIssued>>
     ELSE /\ nAccepted < MaxSubmits
          /\ alertMsg' = NoMessage
          /\ loading' = TRUE
          /\ requests' = Append(requests, [link |-> RequestBody(link).link,
                                           live |-> TRUE, late |-> FALSE])
          /\ nAccepted' = nAccepted + 1
          /\ nIssued' = nIssued + 1
  /\ UNCHANGED <<home, route, link, storage, data, rLoading, effectRan,
                 visited, nReads, lastStored, call>>

(* the submit event of the form *)
Submit == route = "home" /\ SubmitEnabled /\ handleSubmit

Without(seq, i) == SubSeq(seq, 1, i - 1) \o SubSeq(seq, i + 1, Len(seq))
(* the calls issued before call i, once call i has written the key *)
Overtaken(rest, i) ==
  [j \in 1..Len(rest) |-> IF j < i THEN [rest[j] EXCEPT !.late = TRUE] ELSE rest[j]]

FailureAlert(err) ==
  [parts |-> <<"Failed to analyze property: ">> \o err.parts, text |-> err.text]

(* the catch block of handleSubmit for the call r; rest: the other calls *)
CatchKeepsLoading(r, rest, err) ==
  /\ alertMsg' = FailureAlert(err)
  /\ pushed' = FALSE
  /\ requests' = rest
  /\ UNCHANGED <<route, link, loading, storage, data, rLoading, effectRan,
                 visited, nIssued, nReads, lastStored>>
CatchRetries(r, rest, err) ==
  /\ alertMsg' = FailureAlert(err)
  /\ pushed' = FALSE
  /\ requests' = Append(rest, r)
  /\ nIssued' = nIssued + 1
  /\ UNCHANGED <<route, link, loading, storage, data, rLoading, effectRan,
                 visited, nReads, lastStored>>
CatchClears(r, rest, err) ==
  /\ alertMsg' = FailureAlert(err)
  /\ pushed' = FALSE
  /\ requests' = rest
  /\ loading' = IF r.live THEN FALSE ELSE loading
  /\ storage' = Absent
  /\ UNCHANGED <<route, link, data, rLoading, effectRan, visited, nIssued,
                 nReads, lastStored>>
Catch(r, rest, err) ==
  /\ alertMsg' = FailureAlert(err)
  /\ pushed' = FALSE
  /\ requests' = rest
  /\ loading' = IF r.live THEN FALSE ELSE loading
  /\ UNCHANGED <<route, link, storage, data, rLoading, effectRan, visited,
                 nIssued, nReads, lastStored>>

(* JSON.stringify(data), the text handed to setItem *)
SnapshotTextFlagOnly(d) ==
  JSONStringify(IF d.t = "object"
                THEN Obj(SelectSeq(d.m, LAMBDA mem : mem.k = "success"))
                ELSE d)
SnapshotText(d) == JSONStringify(d)

(* sessionStorage.setItem and router.push("/report") of handleSubmit; a push
   to the route already shown mounts nothing *)
StoreAndPushResets(rest, d) ==
  /\ storage' = Stored(SnapshotText(d))
  /\ lastStored' = Some(d)
  /\ alertMsg' = NoMessage
  /\ pushed' = TRUE
  /\ loading' = FALSE
  /\ IF route = "home"
     THEN MountReport(rest) /\ UNCHANGED link
     ELSE /\ requests' = rest
          /\ UNCHANGED <<route, link, data, rLoading, effectRan, visited, nReads>>
  /\ UNCHANGED nIssued
StoreAndPushSkipsWrite(rest, d) ==
  /\ alertMsg' = NoMessage
  /\ pushed' = TRUE
  /\ IF route = "home"
     THEN MountReport(rest) /\ UNCHANGED <<link, loading>>
     ELSE /\ requests' = rest
          /\ UNCHANGED <<route, link, loading, data, rLoading, effectRan,
                         visited, nReads>>
  /\ UNCHANGED <<nIssued, storage, lastStored>>
StoreAndPush(rest, d) ==
  /\ storage' = Stored(SnapshotText(d))
  /\ lastStored' = Some(d)
  /\ alertMsg' = NoMessage
  /\ pushed' = TRUE
  /\ IF route = "home"
     THEN MountReport(rest) /\ UNCHANGED <<link, loading>>
     ELSE /\ requests' = rest
          /\ UNCHANGED <<route, link, loading, data, rLoading, effectRan,
                         visited, nReads>>
  /\ UNCHANGED nIssued

QuotaExceeded == Error("QuotaExceededError", <<"The quota has been exceeded.">>, <<>>)

(* what analyzeProperty gives for each outcome, computed once *)
Results == [o \in Outcomes |-> analyzeProperty(o)]

(* handleSubmit from its await on: call i comes back with outcome o *)
ResponseChecksIdentity(i, o) ==
  /\ i \in 1..Len(requests)
  /\ LET r == requests[i]
         rest == Without(requests, i)
         res == Results[o]
     IN /\ op' = (IF r.live THEN "response" ELSE "orphan")
        /\ logged' = FALSE
        /\ got' = IF res.ok THEN ReturnedTo(r.late, res.data) ELSE None
        /\ IF ~res.ok THEN Catch(r, rest, res.error)
           ELSE IF o.full THEN Catch(r, rest, QuotaExceeded)
           ELSE IF r.late
           THEN /\ alertMsg' = NoMessage /\ pushed' = FALSE
                /\ requests' = rest
                /\ UNCHANGED <<route, link, loading, storage, data, rLoading,
                               effectRan, visited, nIssued, nReads, lastStored>>
           ELSE StoreAndPush(Overtaken(rest, i), res.data)
        /\ UNCHANGED <<home, nAccepted, call>>
ResponseQuotaUncaught(i, o) ==
  /\ i \in 1..Len(requests)
  /\ LET r == requests[i]
         rest == Without(requests, i)
         res == Results[o]
     IN /\ op' = (IF r.live THEN "response" ELSE "orphan")
        /\ logged' = FALSE
        /\ got' = IF res.ok THEN ReturnedTo(r.late, res.data) ELSE None
        /\ IF ~res.ok THEN Catch(r, rest, res.error)
           ELSE IF o.full
           THEN /\ alertMsg' = NoMessage /\ pushed' = FALSE
                /\ requests' = rest
                /\ UNCHANGED <<route, link, loading, storage, data, rLoading,
                               effectRan, visited, nIssued, nReads, lastStored>>
           ELSE StoreAndPush(Overtaken(rest, i), res.data)
        /\ UNCHANGED <<home, nAccepted, call>>
Response(i, o) ==
  /\ i \in 1..Len(requests)
  /\ LET r == requests[i]
         rest == Without(requests, i)
         res == Results[o]
     IN /\ op' = (IF r.live THEN "response" ELSE "orphan")
        /\ logged' = FALSE
        /\ got' = IF res.ok THEN ReturnedTo(r.late, res.data) ELSE None
        /\ IF ~res.ok THEN Catch(r, rest, res.error)
           ELSE IF o.full THEN Catch(r, rest, QuotaExceeded)
           ELSE StoreAndPush(Overtaken(rest, i), res.data)
        /\ UNCHANGED <<home, nAccepted, call>>

----------------------------------------------------------------------------
(* Report *)

(* the effect has an empty dependency list: it runs once per mount *)
EffectPendingAlways == TRUE
EffectPending == ~effectRan

(* the body of the effect: getItem, JSON.parse, setData, setLoading(false) *)
useEffectSkipsLoading ==
  /\ nReads' = nReads + 1
  /\ effectRan' = TRUE
  /\ IF storage.present /\ storage.text # <<>>
     THEN /\ rLoading' = FALSE
          /\ IF JSONParse(storage.text).ok
             THEN data' = JSONParse(storage.text).v /\ logged' = FALSE
             ELSE data' = data /\ logged' = TRUE
     ELSE UNCHANGED <<data, rLoading>> /\ logged' = FALSE
useEffect ==
  /\ nReads' = nReads + 1
  /\ effectRan' = TRUE
  /\ IF storage.present /\ storage.text # <<>>
     THEN IF JSONParse(storage.text).ok
          THEN data' = JSONParse(storage.text).v /\ logged' = FALSE
          ELSE data' = data /\ logged' = TRUE
     ELSE data' = data /\ logged' = FALSE
  /\ rLoading' = FALSE

(* Report is committed and its effect runs; a Home that called router.push
   is discarded by now *)
ReportEffectConsumes ==
  /\ route = "report" /\ EffectPending
  /\ nReads < 2
  /\ useEffect
  /\ op' = "effect"
  /\ alertMsg' = NoMessage /\ pushed' = FALSE /\ got' = None
  /\ link' = <<>> /\ loading' = FALSE
  /\ storage' = Absent
  /\ UNCHANGED <<home, route, requests, visited, nAccepted, nIssued,
                 lastStored, call>>
ReportEffect ==
  /\ route = "report" /\ EffectPending
  /\ nReads < 2
  /\ useEffect
  /\ op' = "effect"
  /\ alertMsg' = NoMessage /\ pushed' = FALSE /\ got' = None
  /\ link' = <<>> /\ loading' = FALSE
  /\ UNCHANGED <<home, route, requests, storage, visited, nAccepted, nIssued,
                 lastStored, call>>

(* what the Report renders: the kind of output, the message shown and the
   data sections shown.  A field is taken to have its declared type, to be
   missing or to be null. *)
FailureText == "No analysis data available or analysis failed."
LegacyEmptyText == "No analysis data available."
Message(text) ==
  [kind |-> "message", text |-> text, sections |-> {}, rent |-> <<>>, summary |-> <<>>]
TypeError ==
  [kind |-> "TypeError", text |-> "", sections |-> {}, rent |-> <<>>, summary |-> <<>>]

(* formatCurrency: whole euros, halves rounded away from zero; the sign of a
   negative amount is kept when it rounds to zero *)
Currency(neg, kind, n) == [neg |-> neg, kind |-> kind, n |-> n]
formatCurrency(amount) ==
  CASE amount.t = "number" /\ amount.s = "Infinity" -> Currency(amount.n < 0, "infinity", 0)
    [] amount.t = "number" /\ amount.s = "-0" -> Currency(TRUE, "euros", 0)
    [] amount.t = "number" /\ amount.s \in {"finite", "tenths"} ->
         LET k == InTenths(amount) IN
         Currency(k < 0, "euros", ((IF k < 0 THEN -k ELSE k) + 5) \div 10)
    [] amount.t = "boolean" -> Currency(FALSE, "euros", IF amount.s = "true" THEN 1 ELSE 0)
    [] amount.t = "null" -> Currency(FALSE, "euros", 0)
    [] OTHER -> Currency(FALSE, "NaN", 0)

(* x.toFixed(1) and x.split("_") *)
ToFixedThrows(x) == x.t # "number"
SplitThrows(x) == x.t # "string"
(* x.length > 0 *)
NonEmpty(x) == (x.t = "array" /\ Len(x.m) > 0) \/ (x.t = "string" /\ x.s # "")

(* the yield block: metrics.*.toFixed and net_income.* are read unguarded *)
FinancialThrows(b, fm) ==
  LET mt == Get(fm, "metrics") IN
  \/ Throws(mt)
  \/ ToFixedThrows(Get(mt, IF b = "cards" THEN "gross_yield" ELSE "roi_percentage"))
  \/ ToFixedThrows(Get(mt, "net_yield"))
  \/ Throws(Get(fm, "net_income"))

(* one division card: room_type.split, conditions[k].toFixed,
   Object.keys(costs) and images.map are read unguarded *)
DivisionThrows(dv) ==
  \/ Throws(dv)
  \/ SplitThrows(Get(dv, "room_type"))
  \/ LET cs == Get(dv, "conditions") IN
       /\ Truthy(cs)
       /\ \E i \in 1..Len(cs.m) : ~Throws(cs.m[i].v) /\ ToFixedThrows(cs.m[i].v)
  \/ Throws(Get(dv, "costs"))
  \/ LET im == Get(dv, "images") IN Truthy(im) /\ NonEmpty(im) /\ im.t # "array"

DivisionsShown(d) ==
  /\ Truthy(Get(d, "rehab_costs"))
  /\ Truthy(Get(Get(d, "rehab_costs"), "divisions"))
  /\ NonEmpty(Get(Get(d, "rehab_costs"), "divisions"))
DivisionsThrow(d) ==
  LET dvs == Get(Get(d, "rehab_costs"), "divisions") IN
  dvs.t # "array" \/ \E i \in 1..Len(dvs.m) : DivisionThrows(dvs.m[i].v)
SummaryShown(d) ==
  Truthy(Get(d, "rehab_costs")) /\ Truthy(Get(Get(d, "rehab_costs"), "summary"))

(* the figure of the rental block:
   monthly_rent || total_monthly_rent || 0 *)
MonthlyRentNoFallback(re) == Or(Get(re, "monthly_rent"), Num(0))
MonthlyRent(re) ==
  Or(Or(Get(re, "monthly_rent"), Get(re, "total_monthly_rent")), Num(0))

(* the cards of the cost summary: Object.entries(summary), the entries with
   cost > 0, each shown under its key with its cost as currency *)
Entries(v) == IF v.t \in {"object", "array"} THEN v.m ELSE <<>>
CostShownNonNegative(cost) == AtLeast(cost, 0)
CostShown(cost) == MoreThan(cost, 0)
CostSummary(summary) ==
  LET shown == SelectSeq(Entries(summary), LAMBDA e : CostShown(e.v)) IN
  [i \in 1..Len(shown) |-> [key |-> shown[i].k, cost |-> formatCurrency(shown[i].v)]]

(* the sections of a successful analysis; the "plain" Report shows the rent
   inside its financial block *)
Sections(b, d) ==
  {k \in {"property_info", "investment", "financial_metrics"} : Truthy(Get(d, k))}
  \cup (IF /\ Truthy(Get(d, "rent_estimate"))
           /\ (b = "cards" \/ Truthy(Get(d, "financial_metrics")))
        THEN {"rent_estimate"} ELSE {})
  \cup (IF DivisionsShown(d) THEN {"divisions"} ELSE {})
  \cup (IF SummaryShown(d) THEN {"cost_summary"} ELSE {})
SectionsThrow(b, d) ==
  \/ Truthy(Get(d, "financial_metrics")) /\ FinancialThrows(b, Get(d, "financial_metrics"))
  \/ DivisionsShown(d) /\ DivisionsThrow(d)

(* the legacy Report: no loading state, no success flag *)
RenderLegacy(d) ==
  IF Throws(d) THEN TypeError
  ELSE IF Truthy(Get(d, "link"))
  THEN [kind |-> "details", text |-> "", sections |-> {"link"},
        rent |-> <<>>, summary |-> <<>>]
  ELSE Message(LegacyEmptyText)

RenderReport(b, isLoading, d) ==
  IF isLoading THEN Message("Loading...")
  ELSE IF Throws(d) THEN TypeError
  ELSE IF ~Truthy(Get(d, "success")) THEN Message(FailureText)
  ELSE IF SectionsThrow(b, d) THEN TypeError
  ELSE [kind |-> "report", text |-> "", sections |-> Sections(b, d),
        rent |-> IF "rent_estimate" \in Sections(b, d)
                 THEN <<formatCurrency(MonthlyRent(Get(d, "rent_estimate")))>>
                 ELSE <<>>,
        summary |-> IF SummaryShown(d)
                    THEN CostSummary(Get(Get(d, "rehab_costs"), "summary"))
                    ELSE <<>>]

Render(b, isLoading, d) ==
  IF b = "legacy" THEN RenderLegacy(d) ELSE RenderReport(b, isLoading, d)

----------------------------------------------------------------------------
(* Navigation by the user *)

(* the Navbar links to "/" *)
NavHome ==
  /\ route = "report"
  /\ MountHome
  /\ op' = "nav"
  /\ Quiet
  /\ UNCHANGED <<home, requests, storage, visited, nAccepted, nIssued,
                 lastStored, call>>

(* the browser goes back or forward to the /report entry of its history *)
HistoryReport ==
  /\ route = "home" /\ visited
  /\ MountReport(requests)
  /\ link' = <<>> /\ loading' = FALSE
  /\ op' = "history"
  /\ Quiet
  /\ UNCHANGED <<home, storage, nAccepted, nIssued, lastStored, call>>

----------------------------------------------------------------------------
InitCommon ==
  /\ home \in HomeBuilds
  /\ route \in {"home", "report"}
  /\ link = <<>> /\ loading = FALSE
  /\ requests = <<>>
  /\ data = EmptyObject
  /\ rLoading = TRUE
  /\ effectRan = FALSE
  /\ visited = (route = "report")
  /\ op = "init"
  /\ alertMsg = NoMessage /\ logged = FALSE /\ pushed = FALSE /\ got = None
  /\ nAccepted = 0 /\ nIssued = 0 /\ nReads = 0
  /\ lastStored = None

(* a fresh browser session: the storage is empty *)
Init == InitCommon /\ storage = Absent /\ call = NoCall

(* a session whose storage already holds a value under the key *)
Leftovers == {Absent, Stored(<<>>), Stored(BodyNotJson),
              Stored(<<LB, StrTok("success"), CO>>), Stored(BodyFull)}
InitLeftover == InitCommon /\ storage \in Leftovers /\ call = NoCall

Next ==
  \/ \E str \in Texts : Type(str)
  \/ Demo
  \/ Submit
  \/ \E i \in 1..MaxSubmits, o \in Outcomes : Response(i, o)
  \/ ReportEffect
  \/ NavHome
  \/ HistoryReport

Spec == Init /\ [][Next]_vars
SpecLeftover == InitLeftover /\ [][Next]_vars

(* every call in flight comes back: fetch resolves or rejects in the end *)
Completes == \E i \in 1..MaxSubmits, o \in Outcomes : Response(i, o)
SpecComplete == Init /\ [][Next]_vars /\ WF_vars(Completes)

----------------------------------------------------------------------------
(* The formatters and the Report on their own: a formatter is called on one
   argument, the Report is mounted on one stored snapshot *)

appVars == <<home, route, link, loading, requests, storage, data, rLoading,
             effectRan, visited, op, alertMsg, logged, pushed, got, nAccepted,
             nIssued, nReads, lastStored>>

ConditionValues ==
  {Undefined, Null, NegZero, Infinity(1), Infinity(-1)}
  \cup {NumberOfTenths(k) : k \in -MaxTenths..MaxTenths}

LabelChars == {"a", "b", "_"}
Labels ==
  UNION {[1..n -> LabelChars] : n \in 0..MaxLen}
  \cup {<<"l", "i", "v", "i", "n", "g", "_", "r", "o", "o", "m">>,
         <<"f", "l", "o", "o", "r", "i", "n", "g", "_",
           "c", "o", "n", "d", "i", "t", "i", "o", "n">>}

Calls ==
  {[fn |-> f, arg |-> v, out |-> <<>>] :
     f \in {"getConditionColor", "getConditionLabel"}, v \in ConditionValues}
  \cup {[fn |-> f, arg |-> str, out |-> <<>>] :
          f \in {"formatRoomType", "formatCategoryName"}, str \in Labels}

(* the snapshots: success true and, field by field, the field missing,
   empty, partly filled or filled *)
Field(key, vals) == {<<>>} \cup {<<Member(key, v)>> : v \in vals}
Metrics ==
  Obj(<<Member("gross_yield", Dec(55)), Member("net_yield", Num(4)),
        Member("roi_percentage", Num(7)), Member("months_to_break_even", Num(120))>>)
NetIncome == Obj(<<Member("annual_net_income", Num(100)),
                   Member("monthly_net_income", Num(8))>>)
FinancialValues ==
  {EmptyObject,
   Obj(<<Member("metrics", EmptyObject)>>),
   Obj(<<Member("metrics", Metrics)>>),
   Obj(<<Member("net_income", NetIncome)>>),
   Obj(<<Member("metrics", Metrics), Member("net_income", NetIncome)>>)}
RentValues ==
  {Null, EmptyObject,
   Obj(<<Member("monthly_rent", Num(5))>>),
   Obj(<<Member("total_monthly_rent", Num(7))>>),
   Obj(<<Member("monthly_rent", Num(5)), Member("total_monthly_rent", Num(7))>>),
   Obj(<<Member("monthly_rent", Num(0)), Member("total_monthly_rent", Num(7))>>),
   Obj(<<Member("monthly_rent", Num(0))>>)}
Division ==
  <<Member("division_id", Num(1)), Member("room_type", Str("living_room")),
    Member("conditions", Obj(<<Member("floor", Dec(35)), Member("walls", Null)>>)),
    Member("costs", Obj(<<Member("paint", Num(10))>>)),
    Member("total_cost", Num(10))>>
CategoryKeys == <<"paint", "flooring", "plumbing", "electrical">>
Costs == {Num(-1), Num(0), Dec(5), Num(1)}
Summaries ==
  UNION {{Obj([i \in 1..n |-> Member(CategoryKeys[i], c[i])]) : c \in [1..n -> Costs]} :
           n \in 1..MaxEntries}
RehabValues ==
  {EmptyObject,
   Obj(<<Member("divisions", Arr(<<>>))>>),
   Obj(<<Member("divisions", Arr(<<Member("", Obj(SubSeq(Division, 1, 2)))>>))>>),
   Obj(<<Member("divisions", Arr(<<Member("", Obj(SubSeq(Division, 2, 5)))>>))>>),
   Obj(<<Member("divisions", Arr(<<Member("", Obj(Division))>>)),
         Member("summary", Obj(<<Member("paint", Num(10))>>))>>)}
Snapshots ==
  {Obj(<<Member("success", Bool(TRUE))>> \o f \o r \o c) :
     f \in Field("financial_metrics", FinancialValues),
     r \in Field("rent_estimate", RentValues),
     c \in Field("rehab_costs", RehabValues)}
  \cup {Obj(<<Member("success", Bool(TRUE)),
             Member("rehab_costs", Obj(<<Member("summary", sm)>>))>>) :
          sm \in Summaries}

InitCalls ==
  /\ InitCommon
  /\ \/ route = "home" /\ storage = Absent /\ call \in Calls
     \/ /\ route = "report" /\ call = NoCall
        /\ storage \in {Stored(JSONStringify(d)) : d \in Snapshots}

Returns(fn, result) ==
  /\ call.fn = fn /\ call.out = <<>>
  /\ call' = [call EXCEPT !.out = <<result>>]
  /\ UNCHANGED appVars

ConditionColorCall == Returns("getConditionColor", getConditionColor(call.arg))
ConditionLabelCall == Returns("getConditionLabel", getConditionLabel(call.arg))
RoomTypeCall == Returns("formatRoomType", formatRoomType(call.arg))
CategoryNameCall == Returns("formatCategoryName", formatCategoryName(call.arg))

NextCalls ==
  \/ ConditionColorCall
  \/ ConditionLabelCall
  \/ RoomTypeCall
  \/ CategoryNameCall
  \/ ReportEffect

SpecCalls == InitCalls /\ [][NextCalls]_vars
----------------------------------------------------------------------------
(* Properties *)

Live == {i \in 1..Len(requests) : requests[i].live}
(* the step taken is the continuation of the mounted Home's own call *)
OwnResponse == op' = "response"
Responded == op \in {"response", "orphan"}
Flow == IF route # "home" THEN "away" ELSE IF loading THEN "loading" ELSE "idle"
BlankAlert == [parts |-> <<"Please enter a property link">>, text |-> <<>>]

(* C1: a submit whose text is empty or only whitespace issues no request,
   leaves the storage key, the route, loading (false) and the text as they
   were, and shows only the warning. *)
C1_BlankSubmitChangesNothing ==
  [][(op' = "submit" /\ Trim(link) = <<>>)
       => /\ requests' = requests /\ nIssued' = nIssued
          /\ storage' = storage
          /\ route' = route /\ ~pushed'
          /\ ~loading /\ ~loading'
          /\ link' = link
          /\ alertMsg' = BlankAlert]_vars

C1_Witness ==
  /\ op = "submit" /\ link # <<>> /\ Trim(link) = <<>>
  /\ alertMsg = BlankAlert /\ requests = <<>> /\ ~loading

(* no number of the value is an infinity or the negative zero *)
RECURSIVE PlainNumbers(_)
PlainNumbers(v) ==
  /\ v.t = "number" => v.s \in {"finite", "tenths"}
  /\ \A i \in 1..Len(v.m) : PlainNumbers(v.m[i].v)

(* C2 as stated: what the Report reads at its mount is the response body
   that was stored, whatever that body is. *)
C2_AnyBodyRoundTrips ==
  (op = "effect" /\ lastStored.some) => data = lastStored.data

(* C2 as amended: what the Report reads at its mount is the response body
   that was stored, for every body whose numbers are finite and not -0. *)
C2_PlainBodyRoundTrips ==
  (op = "effect" /\ lastStored.some /\ PlainNumbers(lastStored.data))
    => data = lastStored.data

C2_Witness ==
  /\ op = "effect" /\ lastStored.some /\ PlainNumbers(lastStored.data)
  /\ data = lastStored.data
  /\ HasKey(data, "investment") /\ HasKey(data, "rent_estimate")

(* C3: when the call of the mounted Home fails, loading is false again, the
   text is what was submitted, the submit control is enabled, the route is
   unchanged and the failure is shown in an alert. *)
C3_FailureReturnsToIdle ==
  [][(OwnResponse /\ ~pushed')
       => /\ ~loading'
          /\ \E i \in Live : link' = requests[i].link
          /\ link' = link
          /\ SubmitEnabled'
          /\ route' = "home" /\ route = "home"
          /\ alertMsg'.parts # <<>>
          /\ Head(alertMsg'.parts) = "Failed to analyze property: "]_vars

C3_Witness ==
  /\ op = "response" /\ ~pushed /\ route = "home" /\ ~loading
  /\ alertMsg.parts = <<"Failed to analyze property: ",
                        "Failed to analyze property: ", "500", " ">>
  /\ link = <<" ", "a", " ">> /\ SubmitEnabled /\ requests = <<>>

(* C4: whenever the snapshot the Report has read has a success flag that is
   false or absent, the Report renders the failure message and no section. *)
FlagFalseOrAbsent(d) == ~HasKey(d, "success") \/ Get(d, "success") = Bool(FALSE)
C4_FailedSnapshotRendersOnlyMessage ==
  (route = "report" /\ effectRan /\ FlagFalseOrAbsent(data))
    => \A b \in {"cards", "plain"} :
         Render(b, rLoading, data)
           = Message(FailureText)

C6_FlowTransitions ==
  [][/\ op' = "submit"
          => /\ Flow = "idle"
             /\ Flow' = IF Trim(link) = <<>> THEN "idle" ELSE "loading"
     /\ OwnResponse
          => /\ Flow = "loading"
             /\ Flow' = IF pushed' THEN "away" ELSE "idle"
             /\ pushed' => loading'
     /\ (route = "home" /\ route' = "home" /\ loading /\ ~loading')
          => (OwnResponse /\ ~pushed')
     /\ (route = "home" /\ route' = "home" /\ ~loading /\ loading')
          => (op' = "submit" /\ Trim(link) # <<>>)
     /\ (route = "home" /\ route' = "report")
          => (op' = "history" \/ (op' \in {"response", "orphan"} /\ pushed'))
     /\ (route = "report" /\ route' = "home") => op' = "nav"]_vars

C6_Witness ==
  /\ op = "response" /\ pushed /\ route = "report" /\ loading /\ ~effectRan
  /\ nAccepted = 1

(* C7: the number of requests issued equals the number of submits that
   passed the emptiness check; a failed request is not issued again. *)
C7_OneRequestPerSubmit ==
  /\ nIssued = nAccepted
  /\ Len(requests) <= nIssued

C7_Witness ==
  /\ nAccepted = 2 /\ nIssued = 2 /\ requests = <<>>
  /\ op = "response" /\ ~pushed /\ alertMsg.parts # <<>>

(* C8 as stated: after a successful response the key holds that response's
   body; every other step leaves the key as it was. *)
C8_LatestSuccessfulResponseStored ==
  (Responded /\ got.some) => storage = Stored(JSONStringify(got.data))

(* C8 as amended: the key is absent until the first completed write; a
   response step whose write completed leaves exactly the serialization of
   that response's body under the key; every other step, among them a blank
   submit, a failed request and a response whose write threw, leaves the
   key as it was. *)
C8_LatestCompletedWriteStored ==
  /\ [](~lastStored.some => storage = Absent)
  /\ [][IF Responded' /\ pushed'
        THEN got'.some /\ storage' = Stored(JSONStringify(got'.data))
        ELSE storage' = storage]_vars

C8_Witness ==
  /\ Responded /\ got.some /\ ~pushed
  /\ storage.present /\ storage.text # JSONStringify(got.data)
  /\ alertMsg.parts = <<"Failed to analyze property: ", "The quota has been exceeded.">>

(* C9: the mounted Report reads the storage key once, in its mount effect,
   and its data does not change afterwards, whatever is written under the
   key in the meantime. *)
C9_ReportDataFixedAfterMount ==
  /\ [](nReads <= 1 /\ (route = "report" /\ effectRan => nReads = 1))
  /\ [][(route = "report" /\ route' = "report" /\ effectRan)
          => (data' = data /\ nReads' = nReads /\ effectRan')]_vars

C9_Witness ==
  /\ route = "report" /\ effectRan /\ nReads = 1
  /\ storage.present /\ JSONParse(storage.text).ok
  /\ JSONParse(storage.text).v # data
  /\ data # EmptyObject

(* C10: when the Report mounts and the key is absent, empty or not valid
   JSON, its data stays the empty result, nothing is shown but the "no
   analysis data" message, a parse error is logged only, and the view has
   left its loading state. *)
Unreadable(st) == ~st.present \/ ~JSONParse(st.text).ok
C10_UnreadableSnapshotFallsBack ==
  (op = "effect" /\ Unreadable(storage))
    => /\ data = EmptyObject
       /\ ~rLoading
       /\ logged = (storage.present /\ storage.text # <<>>)
       /\ alertMsg = NoMessage
       /\ \A b \in {"cards", "plain"} :
            Render(b, rLoading, data)
              = Message(FailureText)

C10_Witness ==
  /\ op = "effect" /\ storage = Stored(BodyNotJson)
  /\ logged /\ data = EmptyObject /\ ~rLoading

(* the mounted Report has read its snapshot and the flag is truthy *)
ReadSuccess == op = "effect" /\ ~Throws(data) /\ Truthy(Get(data, "success"))
Returned(fns) == call.fn \in fns /\ call.out # <<>>

(* C11 as stated: for every snapshot with a truthy success flag, whichever
   of the other fields are missing, the Report renders without an error
   and shows exactly the sections whose data is there. *)
C11_MissingFieldsRenderWithoutError ==
  ReadSuccess
    => \A b \in {"cards", "plain"} :
         /\ Render(b, rLoading, data).kind = "report"
         /\ Render(b, rLoading, data).sections = Sections(b, data)

(* C12: getConditionColor and getConditionLabel give gray and "N/A" for an
   absent or zero value, green and "Excellent" from 3.5, yellow and "Good"
   from 2.5 to below 3.5, red otherwise, with "Fair" from 1.5 to below 2.5
   and "Poor" below 1.5. *)
Tier(v) ==
  IF v.t \in {"undefined", "null"} \/ v = Num(0) \/ v = NegZero THEN "none"
  ELSE IF v = Infinity(1) THEN "top"
  ELSE IF v = Infinity(-1) THEN "poor"
  ELSE IF InTenths(v) >= 35 THEN "top"
  ELSE IF InTenths(v) >= 25 THEN "mid"
  ELSE IF InTenths(v) >= 15 THEN "fair"
  ELSE "poor"
C12_ConditionTiers ==
  /\ Returned({"getConditionColor"})
       => call.out[1] = (CASE Tier(call.arg) = "none" -> "text-gray-500"
                           [] Tier(call.arg) = "top" -> "text-green-600"
                           [] Tier(call.arg) = "mid" -> "text-yellow-600"
                           [] OTHER -> "text-red-600")
  /\ Returned({"getConditionLabel"})
       => call.out[1] = (CASE Tier(call.arg) = "none" -> "N/A"
                           [] Tier(call.arg) = "top" -> "Excellent"
                           [] Tier(call.arg) = "mid" -> "Good"
                           [] Tier(call.arg) = "fair" -> "Fair"
                           [] OTHER -> "Poor")

C12_Witness ==
  /\ call.fn = "getConditionLabel" /\ call.arg = Dec(35)
  /\ call.out = <<"Excellent">>

(* C13: the cost summary the Report shows holds exactly the entries of
   rehab_costs.summary whose cost is more than zero, once each, in the
   order of the summary. *)
Positive(cost) ==
  cost.t = "number" /\ cost.s \in {"finite", "tenths"} /\ InTenths(cost) > 0
C13_PositiveCostsInOrder ==
  ReadSuccess /\ SummaryShown(data)
    => \A b \in {"cards", "plain"} :
         LET sm == Get(Get(data, "rehab_costs"), "summary").m
             shown == Render(b, rLoading, data).summary
             At(key) == CHOOSE i \in 1..Len(sm) : sm[i].k = key
         IN Render(b, rLoading, data).kind = "report"
              => /\ \A i \in 1..Len(sm) :
                      Positive(sm[i].v) <=> \E j \in 1..Len(shown) : shown[j].key = sm[i].k
                 /\ \A j \in 1..Len(shown) :
                      /\ \E i \in 1..Len(sm) : sm[i].k = shown[j].key
                      /\ shown[j].cost = formatCurrency(sm[At(shown[j].key)].v)
                 /\ \A j, k \in 1..Len(shown) :
                      j < k => At(shown[j].key) < At(shown[k].key)

C13_Witness ==
  /\ ReadSuccess
  /\ Get(Get(data, "rehab_costs"), "summary")
       = Obj(<<Member("paint", Num(1)), Member("flooring", Num(0)),
               Member("plumbing", Dec(5))>>)
  /\ Render("cards", rLoading, data).summary
       = <<[key |-> "paint", cost |-> Currency(FALSE, "euros", 1)],
           [key |-> "plumbing", cost |-> Currency(FALSE, "euros", 1)]>>

(* C17: formatRoomType and formatCategoryName return the same string for
   every input: the input with every underscore replaced by one space and
   the first character of every token upper-cased. *)
C17_LabelFormattersAgree ==
  Returned({"formatRoomType", "formatCategoryName"})
    => LET x == call.arg
           y == call.out[1]
       IN /\ y = formatRoomType(x) /\ y = formatCategoryName(x)
          /\ Len(y) = Len(x)
          /\ \A i \in 1..Len(x) :
               y[i] = IF x[i] = "_" THEN " "
                      ELSE IF i = 1 \/ x[i - 1] = "_" THEN toUpperCase(x[i])
                      ELSE x[i]
          /\ x = <<"f", "l", "o", "o", "r", "i", "n", "g", "_",
                   "c", "o", "n", "d", "i", "t", "i", "o", "n">>
               => y = <<"F", "l", "o", "o", "r", "i", "n", "g", " ",
                        "C", "o", "n", "d", "i", "t", "i", "o", "n">>

C17_Witness ==
  /\ call.fn = "formatRoomType"
  /\ call.arg = <<"l", "i", "v", "i", "n", "g", "_", "r", "o", "o", "m">>
  /\ call.out = << <<"L", "i", "v", "i", "n", "g", " ", "R", "o", "o", "m">> >>

(* C18 as stated: with rent_estimate present the figure of the rental block
   is monthly_rent when given, else total_monthly_rent when given, else 0;
   with rent_estimate absent no rental block is shown. *)
Given(obj, key) == Get(obj, key).t \notin {"undefined", "null"}
C18_GivenRentPreferred ==
  ReadSuccess
    => \A b \in {"cards", "plain"} :
         LET re == Get(data, "rent_estimate")
             v == Render(b, rLoading, data)
         IN v.kind = "report"
              => /\ ~Given(data, "rent_estimate") => v.rent = <<>>
                 /\ v.rent # <<>>
                      => v.rent[1] = formatCurrency(
                           IF Given(re, "monthly_rent") THEN Get(re, "monthly_rent")
                           ELSE IF Given(re, "total_monthly_rent")
                           THEN Get(re, "total_monthly_rent")
                           ELSE Num(0))

(* C18 as amended: the figure is monthly_rent when that is given and not
   zero, else total_monthly_rent when that is given and not zero, else 0;
   the block is shown by the "cards" Report whenever rent_estimate is
   present and by neither Report when it is absent. *)
C18_NonZeroRentPreferred ==
  ReadSuccess
    => \A b \in {"cards", "plain"} :
         LET re == Get(data, "rent_estimate")
             v == Render(b, rLoading, data)
             NonZero(key) == Given(re, key) /\ Get(re, key) \notin {Num(0), NegZero}
         IN v.kind = "report"
              => /\ ~Given(data, "rent_estimate") => v.rent = <<>>
                 /\ (b = "cards" /\ Given(data, "rent_estimate")) => v.rent # <<>>
                 /\ v.rent # <<>>
                      => v.rent[1] = formatCurrency(
                           IF NonZero("monthly_rent") THEN Get(re, "monthly_rent")
                           ELSE IF NonZero("total_monthly_rent")
                           THEN Get(re, "total_monthly_rent")
                           ELSE Num(0))

C18_Witness ==
  /\ ReadSuccess
  /\ Get(data, "rent_estimate")
       = Obj(<<Member("monthly_rent", Num(0)), Member("total_monthly_rent", Num(7))>>)
  /\ Render("cards", rLoading, data).rent = <<Currency(FALSE, "euros", 7)>>

(* C14: analyzeProperty returns the parsed body of a response with a
   success status (and throws when that body is not JSON); for a response
   with another status it returns nothing and throws an Error whose
   message holds the status code and the body text; whatever it throws is
   shown, whole, in the alert of the submission flow. *)
Range(seq) == {seq[i] : i \in 1..Len(seq)}
ResultsByStatus ==
  \A o \in Outcomes :
    ~o.net =>
      LET res == analyzeProperty(o)
          parsed == JSONParse(o.body)
      IN IF ResOk(o.status)
         THEN /\ res.ok = parsed.ok
              /\ res.ok => res.data = parsed.v
         ELSE /\ ~res.ok /\ res.data = Undefined
              /\ res.error.name = "Error"
              /\ StatusText(o.status) \in Range(res.error.parts)
              /\ res.error.text = o.body /\ o.body # <<>>
ThrownErrors == {analyzeProperty(o).error : o \in {x \in Outcomes : ~analyzeProperty(x).ok}}
C14_StatusDecidesResult ==
  /\ []ResultsByStatus
  /\ [][(Responded' /\ ~got'.some)
          => /\ ~pushed' /\ storage' = storage
             /\ \E e \in ThrownErrors :
                  /\ alertMsg'.parts = <<"Failed to analyze property: ">> \o e.parts
                  /\ alertMsg'.text = e.text]_vars

C14_Witness ==
  /\ op = "response" /\ ~got.some /\ ~pushed
  /\ alertMsg = [parts |-> <<"Failed to analyze property: ",
                             "Failed to analyze property: ", "404", " ">>,
                 text |-> BodyDetail]

(* C15: the link of the request body of an accepted submit is the text of
   the input at that moment, whitespace included. *)
C15_RawLinkSent ==
  [][(op' = "submit" /\ Trim(link) # <<>>)
       => /\ Len(requests') = Len(requests) + 1
          /\ requests'[Len(requests')].link = link
          /\ SubSeq(requests', 1, Len(requests)) = requests
          /\ link' = link]_vars

C15_Witness ==
  /\ op = "submit" /\ loading /\ Len(requests) = 1
  /\ requests[1].link = <<" ", "a", " ">> /\ link = <<" ", "a", " ">>

(* C16: the mount effect of the Report, its only step, leaves the storage
   key, the calls in flight and the number of requests issued as they
   were; no other step taken while the Report is shown issues a request. *)
C16_ReportLeavesSnapshotAlone ==
  [][/\ op' = "effect"
          => /\ storage' = storage /\ lastStored' = lastStored
             /\ requests' = requests /\ nIssued' = nIssued
     /\ route = "report" => nIssued' = nIssued
     /\ (route = "report" /\ ~Responded') => storage' = storage]_vars

C16_Witness ==
  /\ op = "effect" /\ route = "report" /\ storage.present
  /\ data = JSONParse(storage.text).v /\ Truthy(Get(data, "success"))
  /\ Len(requests) = 1 /\ nIssued = 2

(* C19: the write has no check of which request the response belongs to:
   every successful response whose write completes, that of an older
   request arriving after the response of a newer one included, leaves its
   own body under the key. *)
C19_LastArrivalWins ==
  [][(Responded' /\ got'.some)
       => IF pushed'
          THEN /\ storage' = Stored(JSONStringify(got'.data))
               /\ lastStored' = Some(got'.data)
          ELSE /\ storage' = storage
               /\ alertMsg' = FailureAlert(QuotaExceeded)]_vars

C19_Witness ==
  /\ op = "orphan" /\ pushed /\ got.late /\ nIssued = 2 /\ requests = <<>>
  /\ route = "report" /\ effectRan /\ data # EmptyObject
  /\ storage = Stored(JSONStringify(got.data))
  /\ JSONParse(storage.text).v # data

(* C20: a response is the response of a request issued before; the router
   is pushed only in a step that has written the body of that response
   under the key; the key then always holds the latest write, and the
   mount effect of the Report reads what the key holds. *)
C20_WriteBeforeNavigation ==
  /\ [][/\ Responded' => (requests # <<>> /\ Len(requests') = Len(requests) - 1)
        /\ pushed' => /\ Responded' /\ got'.some
                      /\ storage' = Stored(JSONStringify(got'.data))
                      /\ lastStored' = Some(got'.data)
        /\ (route = "home" /\ route' = "report" /\ op' # "history") => pushed']_vars
  /\ [](lastStored.some => storage = Stored(JSONStringify(lastStored.data)))
  /\ []((op = "effect" /\ lastStored.some)
          => /\ JSONParse(storage.text).ok
             /\ data = JSONParse(storage.text).v)

C20_Witness ==
  /\ op = "effect" /\ nIssued = 1 /\ requests = <<>> /\ nReads = 1
  /\ storage = Stored(JSONStringify(lastStored.data))
  /\ data = JSONParse(storage.text).v /\ data = lastStored.data

(* C21: if every call in flight comes back, a Home that is loading gets to
   the report route or is idle again with loading false, whether its call
   fails, its body is not JSON or the storage write throws; and no call
   stays in flight for ever. *)
C21_LoadingEnds ==
  /\ (route = "home" /\ loading) ~> (route = "report" \/ ~loading)
  /\ (requests # <<>>) ~> (requests = <<>>)

C21_Witness ==
  /\ op = "response" /\ route = "home" /\ ~loading /\ requests = <<>>
  /\ nIssued = 1 /\ storage = Absent
  /\ alertMsg = FailureAlert(Error("SyntaxError", <<"Unexpected token">>, <<>>))

(* C22: while loading is true the input, the submit control and the demo
   button are disabled, and the text of the input stays what it was when
   the request was issued until the response of that request is handled. *)
C22_ControlsDisabledWhileLoading ==
  /\ [](loading => (~InputEnabled /\ ~SubmitEnabled /\ ~DemoEnabled))
  /\ []((route = "home" /\ loading) => \E i \in Live : requests[i].link = link)
  /\ [][(route = "home" /\ loading /\ ~OwnResponse /\ route' = "home")
          => (link' = link /\ loading')]_vars

C22_Witness ==
  /\ route = "home" /\ home = "cards" /\ loading /\ op = "submit"
  /\ link = DemoLink /\ requests[1].link = DemoLink
  /\ ~InputEnabled /\ ~SubmitEnabled /\ ~DemoEnabled

(* C23 as stated: every successful response whose body was parsed and
   written is stored under the key, replacing what was there, and followed
   by the push to the report route, whatever its success flag says; for a
   body whose flag is false or absent the Report then shows the failure
   message. *)
C23_FlagNeverInspected ==
  /\ [][(Responded' /\ got'.some /\ alertMsg' = NoMessage)
          => /\ pushed' /\ route' = "report"
             /\ storage' = Stored(JSONStringify(got'.data))]_vars
  /\ []((op = "effect" /\ lastStored.some /\ FlagFalseOrAbsent(lastStored.data))
          => /\ data = JSONParse(storage.text).v
             /\ \A b \in {"cards", "plain"} :
                  Render(b, rLoading, data) = Message(FailureText))

(* C24: for every condition value getConditionColor and getConditionLabel
   agree on the tier: gray with "N/A", green with "Excellent", yellow with
   "Good", red with "Fair" or "Poor". *)
TierOfColor(color) ==
  CASE color = "text-gray-500" -> "none"
    [] color = "text-green-600" -> "top"
    [] color = "text-yellow-600" -> "mid"
    [] color = "text-red-600" -> "low"
    [] OTHER -> "?"
TierOfLabel(label) ==
  CASE label = "N/A" -> "none"
    [] label = "Excellent" -> "top"
    [] label = "Good" -> "mid"
    [] label \in {"Fair", "Poor"} -> "low"
    [] OTHER -> "??"
C24_ColorAndLabelAgree ==
  /\ Returned({"getConditionColor"})
       => TierOfColor(call.out[1]) = TierOfLabel(getConditionLabel(call.arg))
  /\ Returned({"getConditionLabel"})
       => TierOfLabel(call.out[1]) = TierOfColor(getConditionColor(call.arg))

C24_Witness ==
  /\ call.fn = "getConditionColor" /\ call.arg = Num(-1)
  /\ call.out = <<"text-red-600">>
  /\ getConditionLabel(call.arg) = "Poor"

====
